---- MODULE Spec2Model ----
(***************************************************************************)
(* One request handled by VueRenderer (frappe_vue_ssr/vue_renderer):       *)
(* locating the .vue component, probing for a Node.js runtime, running the *)
(* SSR renderer subprocess and assembling the document.                    *)
(***************************************************************************)
EXTENDS Integers, Sequences, FiniteSets, TLC

\* ------------------------------------------------------------------ bounds
\* number of applications that can be installed on the site
MaxApps == 2
\* number of probe candidates that answer the version query with a version
MaxFound == 3

None == "<none>"

\* ----------------------------------------------------------- small helpers
Reverse(s) == [k \in 1..Len(s) |-> s[Len(s) + 1 - k]]

\* ------------------------------------------------------- component locator
Apps == 1..MaxApps

\* frappe.get_installed_apps(): a list of distinct applications
InstalledLists ==
    UNION {{s \in [1..n -> Apps] : \A a, b \in 1..n : a # b => s[a] # s[b]} : n \in 0..MaxApps}

\* os.path.join(app_path, "www", self.path + ".vue")
VuePath(a) == <<a, "www", "page.vue">>

\* self.vue_file_path = None
NoPath == <<>>

\* every set of files the applications can hold at www/<path>.vue
FileSets == SUBSET {VuePath(a) : a \in Apps}

\* the first application of a list whose www/<path>.vue is a file, or None
FirstWithFile(apps, files) ==
    IF \E k \in 1..Len(apps) : VuePath(apps[k]) \in files
    THEN VuePath(apps[CHOOSE k \in 1..Len(apps) :
                        /\ VuePath(apps[k]) \in files
                        /\ \A j \in 1..(k - 1) : VuePath(apps[j]) \notin files])
    ELSE NoPath

\* a scan in installation order
ForwardScan(apps, files) == FirstWithFile(apps, files)

\* for app in reversed(frappe.get_installed_apps()): ... return
set_vue_template_path(apps, files) == FirstWithFile(Reverse(apps), files)

\* ------------------------------------------------------ exception classes
\* the classes an exception of each type is an instance of
Bases(t) ==
    CASE t = "TimeoutExpired" -> {"TimeoutExpired", "SubprocessError", "Exception"}
      [] t = "FileNotFoundError" -> {"FileNotFoundError", "OSError", "Exception"}
      [] t = "PermissionError" -> {"PermissionError", "OSError", "Exception"}
      [] t = "ValueError" -> {"ValueError", "Exception"}
      [] t = "AttributeError" -> {"AttributeError", "Exception"}
      [] t = "ValidationError" -> {"ValidationError", "Exception"}
      [] OTHER -> {"Exception"}

\* an exception: its type, the pieces of str(e), the version strings its
\* message lists
Exc(type, text, versions) == [type |-> type, text |-> text, versions |-> versions]

\* ------------------------------------------------------- runtime selector
node_commands ==
    << "node22", "/opt/homebrew/bin/node22", "/usr/local/bin/node22",
       "/opt/homebrew/bin/node", "/usr/local/bin/node", "node", "/usr/bin/node" >>

RequiredMajor == 22
ReportedMajor == 18

\* what a version query can print (result.stdout.strip()), as characters
VersionOutputs ==
    { <<"v","1","6",".","2","0",".","0">>,
      <<"v","1","8",".","1","9",".","1">>,
      <<"v","2","2",".","1",".","0">>,
      <<"v","2","2",".","9",".","0">>,
      <<"v","2","3",".","4",".","0">> }

GarbageOutputs ==
    { <<"2","2",".","1",".","0">>,          \* no leading v
      <<"v","x",".","1">>,                    \* v, then no number
      <<"v">> }

Digits == <<"0","1","2","3","4","5","6","7","8","9">>

IsDigit(c) == \E d \in 1..10 : Digits[d] = c

DigitVal(c) == (CHOOSE d \in 1..10 : Digits[d] = c) - 1

\* s.split('.')[0]
BeforeDot(s) ==
    IF \E k \in 1..Len(s) : s[k] = "."
    THEN SubSeq(s, 1, (CHOOSE k \in 1..Len(s) : s[k] = "." /\ \A j \in 1..(k - 1) : s[j] # ".") - 1)
    ELSE s

RECURSIVE DecimalValue(_)
DecimalValue(s) ==
    IF s = <<>> THEN 0 ELSE 10 * DecimalValue(SubSeq(s, 1, Len(s) - 1)) + DigitVal(s[Len(s)])

\* int(s): the value, or ValueError
PyInt(s) ==
    IF s # <<>> /\ \A k \in 1..Len(s) : IsDigit(s[k])
    THEN [ok |-> TRUE, val |-> DecimalValue(s)]
    ELSE [ok |-> FALSE, val |-> 0]

startswith_v(version) == Len(version) >= 1 /\ version[1] = "v"

\* int(version[1:].split('.')[0])
major_version(version) == PyInt(BeforeDot(SubSeq(version, 2, Len(version))))

\* what subprocess.run([cmd, "--version"], timeout=5) does for one candidate
Completed(rc, out) == [kind |-> "completed", returncode |-> rc, stdout |-> out, type |-> None]
Raised(type) == [kind |-> "raised", returncode |-> -1, stdout |-> <<>>, type |-> type]

ProbeRaises == {"FileNotFoundError", "PermissionError", "TimeoutExpired"}

ProbeOutcomes ==
    {Raised(t) : t \in ProbeRaises}
      \cup {Completed(1, <<>>)}
      \cup {Completed(0, out) : out \in VersionOutputs \cup GarbageOutputs}

\* except (subprocess.SubprocessError, ValueError, FileNotFoundError): continue
ProbeExcept == {"SubprocessError", "ValueError", "FileNotFoundError"}

ProbeCaught(type) == Bases(type) \cap ProbeExcept # {}

\* the exception the body of the probe loop raises for an outcome, or None
ProbeException(o) ==
    IF o.kind = "raised" THEN o.type
    ELSE IF o.returncode = 0 /\ startswith_v(o.stdout) /\ ~major_version(o.stdout).ok
         THEN "ValueError"
         ELSE None

\* the (cmd, major_version, version) entry an outcome appends, if any
Entry(cmd, o) == [cmd |-> cmd, major |-> major_version(o.stdout).val, version |-> o.stdout]

AppendsV22(o) ==
    /\ o.kind = "completed" /\ o.returncode = 0 /\ startswith_v(o.stdout)
    /\ major_version(o.stdout).ok
    /\ major_version(o.stdout).val >= RequiredMajor

AppendsOther(o) ==
    /\ o.kind = "completed" /\ o.returncode = 0 /\ startswith_v(o.stdout)
    /\ major_version(o.stdout).ok
    /\ major_version(o.stdout).val < RequiredMajor
    /\ major_version(o.stdout).val >= ReportedMajor

\* list.sort(key=lambda x: x[1], reverse=True): stable, highest major first
RECURSIVE InsertByMajor(_, _)
InsertByMajor(sorted, e) ==
    IF sorted = <<>> THEN <<e>>
    ELSE IF sorted[1].major < e.major
         THEN <<e>> \o sorted
         ELSE <<sorted[1]>> \o InsertByMajor(Tail(sorted), e)

RECURSIVE SortByMajorDesc(_)
SortByMajorDesc(nodes) ==
    IF nodes = <<>> THEN <<>>
    ELSE InsertByMajor(SortByMajorDesc(SubSeq(nodes, 1, Len(nodes) - 1)), nodes[Len(nodes)])

\* the error frappe.throw raises when no v22+ was found
NodeRequiredError(others) ==
    Exc("ValidationError",
        <<"Node.js v22 or higher is required for Vue SSR.">>
          \o (IF others # <<>> THEN <<"Found Node.js versions: ">> ELSE <<>>)
          \o <<"Installation options:">>,
        [k \in 1..Len(others) |-> others[k].version])

\* ------------------------------------------------- SSR subprocess results
\* JSON values of the fields that are tested, as (type, text)
JTrue == [t |-> "bool", v |-> "true"]
JFalse == [t |-> "bool", v |-> "false"]
JNull == [t |-> "null", v |-> "null"]
JStr(s) == [t |-> "str", v |-> s]
JNum(s) == [t |-> "num", v |-> s]
Absent == [t |-> "absent", v |-> ""]

\* Python's truth test of a parsed JSON value
Truthy(j) ==
    CASE j.t = "bool" -> j.v = "true"
      [] j.t = "null" -> FALSE
      [] j.t = "str" -> j.v # ""
      [] j.t = "num" -> j.v # "0"
      [] OTHER -> TRUE

SuccessValues == {Absent, JTrue, JFalse, JStr("false")}
ErrorValues == {Absent, JStr("boom")}
HtmlValues == {Absent, JStr("<p>hi</p>")}
BundleValues == {Absent, JStr("/assets/app/ssr/b.js"), JStr("https://cdn.example/b.js"), JNum("5")}

\* a JSON object: only the present fields are in its domain
Fields == {"success", "error", "html", "clientBundleUrl"}

Obj(s, e, h, u) ==
    LET all == [success |-> s, error |-> e, html |-> h, clientBundleUrl |-> u]
    IN  [k \in {f \in Fields : all[f] # Absent} |-> all[k]]

\* json.loads(result.stdout): an object, another JSON value, or JSONDecodeError
Parsed(kind, obj) == [kind |-> kind, obj |-> obj]

EmptyObj == Obj(Absent, Absent, Absent, Absent)

Stdouts ==
    {Parsed("invalid", EmptyObj), Parsed("nonobject", EmptyObj)}
      \cup {Parsed("object", Obj(s, e, h, u)) :
              s \in SuccessValues, e \in ErrorValues, h \in HtmlValues, u \in BundleValues}

\* response.get(key, default)
Get(obj, key, default) == IF key \in DOMAIN obj THEN obj[key] ELSE default

\* what subprocess.run(cmd, timeout=30, cwd=app_root) does
SsrOutcomes ==
    {[kind |-> "raised", type |-> t, returncode |-> -1, stderr |-> "", stdout |-> Parsed("invalid", EmptyObj)] :
        t \in {"TimeoutExpired", "FileNotFoundError"}}
      \cup {[kind |-> "completed", type |-> None, returncode |-> rc, stderr |-> err, stdout |-> out] :
              rc \in {0, 1}, err \in {"", "boom"}, out \in Stdouts}

\* ------------------------------------------------------------- documents
Msg(text, versions) == [text |-> text, versions |-> versions]

\* _fallback_html(html): the error box holds html, the note holds the path
\* of the component; the template has no script element
_fallback_html(html, path) ==
    [template |-> "fallback", error |-> html, vue_file |-> path,
     mount |-> "", scripts |-> <<>>]

\* _generate_client_script_tag(client_bundle_url); the url is a string here
_generate_client_script_tag(url) ==
    IF ~Truthy(url) THEN <<>> ELSE <<[type |-> "bundle", src |-> url.v]>>

\* build_complete_html(rendered_html, styles, client_bundle_url, server_data_script)
build_complete_html(rendered_html, url, path) ==
    [template |-> "full", error |-> Msg(<<>>, <<>>), vue_file |-> path,
     mount |-> rendered_html,
     scripts |-> <<[type |-> "hydration", src |-> ""]>>
                   \o _generate_client_script_tag(url)
                   \o <<[type |-> "inline", src |-> ""]>>]

\* str.startswith on the bundle url raises AttributeError unless it is a string
AssemblyRaises(url) == Truthy(url) /\ url.t # "str"


NoDoc == [template |-> "none", error |-> Msg(<<>>, <<>>), vue_file |-> NoPath,
          mount |-> "", scripts |-> <<>>]

NoExc == Exc(None, <<>>, <<>>)

NoResult ==
    [kind |-> "none", type |-> None, returncode |-> -1, stderr |-> "",
     stdout |-> Parsed("invalid", EmptyObj)]

NoProbe == [kind |-> "none", returncode |-> -1, stdout |-> <<>>, type |-> None]

\* a try block with the except subprocess.TimeoutExpired clause only
HandleTimeoutOnly(e, path) ==
    IF "TimeoutExpired" \in Bases(e.type)
    THEN [html |-> _fallback_html(Msg(<<"Vue SSR renderer timed out">>, <<>>), path), raised |-> NoExc]
    ELSE [html |-> NoDoc, raised |-> e]

\* the except clauses of render_vue_with_nodejs, applied to an exception e
\* raised inside its try block: the document returned, or the exception that
\* leaves the method
Handle(e, path) ==
    IF "TimeoutExpired" \in Bases(e.type)
    THEN [html |-> _fallback_html(Msg(<<"Vue SSR renderer timed out">>, <<>>), path), raised |-> NoExc]
    ELSE IF "Exception" \in Bases(e.type)
         THEN [html |-> _fallback_html(Msg(<<"Vue SSR Exception: ">> \o e.text, e.versions), path),
               raised |-> NoExc]
         ELSE [html |-> NoDoc, raised |-> e]

\* str(e) of the exceptions the environment raises
OsErrorText(type) ==
    CASE type = "PermissionError" -> <<"[Errno 13] Permission denied">>
      [] type = "FileNotFoundError" -> <<"[Errno 2] No such file or directory">>
      [] type = "TimeoutExpired" -> <<"timed out">>
      [] OTHER -> <<"error">>

\* ------------------------------------------------------------------ state
VARIABLES
    pc,              \* where the request is
    installed_apps,  \* frappe.get_installed_apps()
    files,           \* the www/<path>.vue files that exist
    vue_file_path,   \* self.vue_file_path
    handles,         \* what can_render returned: "?", "yes", "no"
    renderer_exists, \* os.path.exists(renderer_path): "?", "yes", "no"
    i,               \* index of the next candidate of node_commands
    v22_nodes,       \* candidates with major >= 22
    other_nodes,     \* candidates with 18 <= major < 22
    probed,          \* per probed candidate: the version it printed, or <<>>
    last,            \* outcome of the latest probe
    node_cmd,        \* what get_compatible_node_command returned
    node_error,      \* the exception that left get_compatible_node_command
    attempts,        \* number of runs of the SSR renderer subprocess
    result,          \* outcome of the SSR renderer subprocess
    html,            \* the document render_vue_with_nodejs returned
    raised,          \* the exception that left render_vue_with_nodejs
    trail            \* the phases the request went through

vars == << pc, installed_apps, files, vue_file_path, handles, renderer_exists, i,
           v22_nodes, other_nodes, probed, last, node_cmd, node_error, attempts,
           result, html, raised, trail >>

locator == << installed_apps, files, vue_file_path, handles >>
selector == << i, v22_nodes, other_nodes, probed, last, node_cmd, node_error >>
ssr == << attempts, result >>

Init ==
    /\ pc = "new"
    /\ installed_apps \in InstalledLists
    /\ files \in FileSets
    /\ vue_file_path = NoPath
    /\ handles = "?"
    /\ renderer_exists = "?"
    /\ i = 1
    /\ v22_nodes = <<>>
    /\ other_nodes = <<>>
    /\ probed = <<>>
    /\ last = NoProbe
    /\ node_cmd = None
    /\ node_error = NoExc
    /\ attempts = 0
    /\ result = NoResult
    /\ html = NoDoc
    /\ raised = NoExc
    /\ trail = <<>>

\* the end of the try block of render_vue_with_nodejs for an exception e
Except(e) ==
    LET h == Handle(e, vue_file_path)
    IN  /\ html' = h.html
        /\ raised' = h.raised
        /\ pc' = IF h.raised = NoExc THEN "fallback" ELSE "aborted"
        /\ trail' = IF h.raised = NoExc THEN Append(trail, "FALLBACK") ELSE trail

\* a return self._fallback_html(...) of render_vue_with_nodejs
ReturnFallback(msg) ==
    /\ html' = _fallback_html(msg, vue_file_path)
    /\ raised' = NoExc
    /\ pc' = "fallback"

\* VueRenderer.__init__
Construct ==
    /\ pc = "new"
    /\ vue_file_path' = set_vue_template_path(installed_apps, files)
    /\ pc' = "constructed"
    /\ trail' = <<"LOCATING">>
    /\ UNCHANGED << installed_apps, files, handles, renderer_exists, selector, ssr, html, raised >>

\* can_render
CanRender ==
    /\ pc = "constructed"
    /\ handles' = IF vue_file_path # NoPath /\ vue_file_path \in files THEN "yes" ELSE "no"
    /\ pc' = "checked"
    /\ UNCHANGED << installed_apps, files, vue_file_path, renderer_exists, selector, ssr,
                    html, raised, trail >>

\* the host goes on to its other renderers; the locator's inputs are not
\* read again
Decline ==
    /\ pc = "checked" /\ handles = "no"
    /\ pc' = "declined"
    /\ trail' = Append(trail, "DECLINED")
    /\ installed_apps' = <<>> /\ files' = {}
    /\ UNCHANGED << vue_file_path, handles, renderer_exists, selector, ssr, html, raised >>

\* render -> get_html -> render_vue_with_nodejs, up to the call of
\* get_compatible_node_command
BeginRender ==
    /\ pc = "checked" /\ handles = "yes"
    /\ installed_apps' = <<>> /\ files' = {}
    /\ \E exists \in {"yes", "no"} :
        /\ renderer_exists' = exists
        /\ IF exists = "no"
           THEN /\ ReturnFallback(Msg(<<"Node.js Vue SSR renderer not found at ", "vue_ssr_renderer.js">>, <<>>))
                /\ trail' = trail \o <<"RENDERING", "FALLBACK">>
           ELSE /\ pc' = "probing"
                /\ trail' = Append(trail, "RENDERING")
                /\ UNCHANGED << html, raised >>
    /\ UNCHANGED << vue_file_path, handles, selector, ssr >>

Found(p) == Cardinality({k \in 1..Len(p) : p[k] # <<>>})

\* one iteration of the probe loop of get_compatible_node_command
Probe ==
    /\ pc = "probing" /\ i <= Len(node_commands)
    /\ \E o \in ProbeOutcomes :
        LET exc == ProbeException(o)
            parsed == AppendsV22(o) \/ AppendsOther(o)
                        \/ (exc = None /\ o.returncode = 0 /\ startswith_v(o.stdout))
        IN  /\ parsed => Found(probed) < MaxFound
            /\ last' = o
            /\ IF exc # None /\ ~ProbeCaught(exc)
               THEN /\ node_error' = Exc(exc, OsErrorText(exc), <<>>)
                    /\ Except(Exc(exc, OsErrorText(exc), <<>>))
                    /\ UNCHANGED << i, v22_nodes, other_nodes, probed, node_cmd >>
               ELSE /\ i' = i + 1
                    /\ v22_nodes' = IF AppendsV22(o)
                                    THEN Append(v22_nodes, Entry(node_commands[i], o))
                                    ELSE v22_nodes
                    /\ other_nodes' = IF AppendsOther(o)
                                      THEN Append(other_nodes, Entry(node_commands[i], o))
                                      ELSE other_nodes
                    /\ probed' = Append(probed, IF parsed THEN o.stdout ELSE <<>>)
                    /\ UNCHANGED << node_cmd, node_error, pc, html, raised, trail >>
    /\ UNCHANGED << locator, renderer_exists, ssr >>

\* the end of get_compatible_node_command: the best v22+ candidate, or
\* frappe.throw
Select ==
    /\ pc = "probing" /\ i > Len(node_commands)
    /\ IF v22_nodes # <<>>
       THEN /\ node_cmd' = SortByMajorDesc(v22_nodes)[1].cmd
            /\ pc' = "selected"
            /\ UNCHANGED << node_error, html, raised, trail >>
       ELSE /\ node_error' = NodeRequiredError(other_nodes)
            /\ Except(NodeRequiredError(other_nodes))
            /\ UNCHANGED node_cmd
    /\ UNCHANGED << locator, renderer_exists, i, v22_nodes, other_nodes, probed, last, ssr >>

\* return cmd: node_cmd is assigned in render_vue_with_nodejs and the locals
\* of get_compatible_node_command are gone
ReturnCmd ==
    /\ pc = "selected"
    /\ pc' = "running"
    /\ i' = 1 /\ v22_nodes' = <<>> /\ other_nodes' = <<>> /\ probed' = <<>> /\ last' = NoProbe
    /\ UNCHANGED << locator, renderer_exists, node_cmd, node_error, ssr, html, raised, trail >>

\* the checks render_vue_with_nodejs makes on the outcome o of the run
CheckResult(o) ==
    IF o.kind = "raised"
    THEN Except(Exc(o.type, OsErrorText(o.type), <<>>))
    ELSE IF o.returncode # 0
    THEN /\ ReturnFallback(Msg(<<"Vue SSR Error: ",
                                 IF o.stderr # "" THEN o.stderr ELSE "Node.js renderer failed">>, <<>>))
         /\ trail' = Append(trail, "FALLBACK")
    ELSE IF o.stdout.kind = "invalid"
    THEN /\ ReturnFallback(Msg(<<"Invalid JSON response from Vue SSR: ", "Expecting value">>, <<>>))
         /\ trail' = Append(trail, "FALLBACK")
    ELSE IF o.stdout.kind = "nonobject"
    THEN Except(Exc("AttributeError", <<"object has no attribute 'get'">>, <<>>))
    ELSE IF ~Truthy(Get(o.stdout.obj, "success", JNull))
    THEN /\ ReturnFallback(Msg(<<Get(o.stdout.obj, "html", JStr("")).v>>, <<>>))
         /\ trail' = Append(trail, "FALLBACK")
    ELSE /\ pc' = "assembling"
         /\ trail' = Append(trail, "ASSEMBLING")
         /\ UNCHANGED << html, raised >>

\* a renderer that is run again after its first timeout
RunSSRAgainOnTimeout ==
    /\ pc = "running"
    /\ attempts' = attempts + 1
    /\ \E o \in SsrOutcomes :
        /\ result' = o
        /\ IF o.kind = "raised" /\ o.type = "TimeoutExpired" /\ attempts = 0
           THEN UNCHANGED << pc, html, raised, trail >>
           ELSE CheckResult(o)
    /\ UNCHANGED << locator, renderer_exists, selector >>

\* subprocess.run of the renderer and the checks of its result
RunSSR ==
    /\ pc = "running"
    /\ attempts' = attempts + 1
    /\ \E o \in SsrOutcomes :
        /\ result' = o
        /\ CheckResult(o)
    /\ UNCHANGED << locator, renderer_exists, selector >>

\* return self.build_complete_html(...), still inside the try block
Assemble ==
    /\ pc = "assembling"
    /\ LET obj == result.stdout.obj
           url == Get(obj, "clientBundleUrl", JStr(""))
       IN  IF AssemblyRaises(url)
           THEN Except(Exc("AttributeError", <<"object has no attribute 'startswith'">>, <<>>))
           ELSE /\ html' = build_complete_html(Get(obj, "html", JStr("")).v, url, vue_file_path)
                /\ pc' = "built"
                /\ UNCHANGED << raised, trail >>
    /\ UNCHANGED << locator, renderer_exists, selector, ssr >>

\* render: add_csrf_token and build_response on the document
Serve ==
    /\ pc \in {"fallback", "built"}
    /\ pc' = "served"
    /\ trail' = Append(trail, "SERVED")
    /\ UNCHANGED << locator, renderer_exists, selector, ssr, html, raised >>

Next ==
    \/ Construct
    \/ CanRender
    \/ Decline
    \/ BeginRender
    \/ Probe
    \/ Select
    \/ ReturnCmd
    \/ RunSSR
    \/ Assemble
    \/ Serve

Spec == Init /\ [][Next]_vars


\* ------------------------------------------------------------- properties
Phases(t) == trail = t

FoundIdx == {k \in 1..Len(probed) : probed[k] # <<>>}

ProbedMajor(k) == major_version(probed[k]).val

Qualifying == {k \in FoundIdx : ProbedMajor(k) >= RequiredMajor}

CmdIndex(c) == CHOOSE k \in 1..Len(node_commands) : node_commands[k] = c

\* get_compatible_node_command has ended, by a return or by an exception
SelectionOver == pc \in {"selected", "fallback", "aborted", "served"} /\ last # NoProbe

\* render_vue_with_nodejs has ended
RenderOver == pc \in {"fallback", "built", "served", "aborted"}

\* the versions the probes found, in probe order
RECURSIVE FoundVersions(_)
FoundVersions(p) ==
    IF p = <<>> THEN <<>>
    ELSE (IF p[1] # <<>> THEN <<p[1]>> ELSE <<>>) \o FoundVersions(Tail(p))

InText(doc, t) == t = "" \/ \E k \in 1..Len(doc.error.text) : doc.error.text[k] = t

AllInText(doc, ts) == \A k \in 1..Len(ts) : InText(doc, ts[k])

\* C1: render_vue_with_nodejs never lets an exception out: whatever happens
\* in the stage, the call ends with a document, the full one or the fallback
C1_NeverPropagates ==
    /\ pc # "aborted"
    /\ raised = NoExc
    /\ pc \in {"fallback", "built", "served"} => html.template \in {"full", "fallback"}

C1_Witness ==
    /\ pc = "served"
    /\ node_error.type = "ValidationError"
    /\ html.template = "fallback"

\* C2: when every candidate was probed and none has major >= 22, the error
\* of get_compatible_node_command leaves render_vue_with_nodejs and no
\* document is returned; nothing else leaves it
C2_NoRuntimeEscapes ==
    /\ (SelectionOver /\ i > Len(node_commands) /\ Qualifying = {})
          => (pc = "aborted" /\ raised = node_error /\ html = NoDoc)
    /\ raised # NoExc => raised.type = "ValidationError"

\* C3: the full document is returned only for exit code 0, stdout that is a
\* JSON object and a success flag that is true; anything else gives the
\* fallback document
C3_FullOnlyOnSuccess ==
    (RenderOver /\ html # NoDoc) =>
        /\ html.template = "full" =>
              /\ result.kind = "completed" /\ result.returncode = 0
              /\ result.stdout.kind = "object"
              /\ Get(result.stdout.obj, "success", Absent) = JTrue
        /\ (result.kind = "completed" /\ result.returncode # 0) => html.template = "fallback"
        /\ (result.kind = "completed" /\ result.returncode = 0
              /\ (\/ result.stdout.kind # "object"
                  \/ Get(result.stdout.obj, "success", Absent) \in {Absent, JFalse}))
              => html.template = "fallback"

\* C4: when a probed candidate has major >= 22, the selector returns a
\* candidate of the highest major found, wherever it is in the probe order,
\* and never one below 22
C4_HighestWins ==
    (SelectionOver /\ Qualifying # {}) =>
        /\ node_cmd # None
        /\ CmdIndex(node_cmd) \in Qualifying
        /\ \A k \in FoundIdx : ProbedMajor(CmdIndex(node_cmd)) >= ProbedMajor(k)

\* C5: the locator resolves to the application that is last in installation
\* order among those holding www/<path>.vue, and can_render is true; with
\* no such application the path stays unset and can_render is false
C5_LastInstalledWins ==
    pc \in {"constructed", "checked"} =>
        LET having == {k \in 1..Len(installed_apps) : VuePath(installed_apps[k]) \in files}
        IN  IF having # {}
            THEN /\ vue_file_path = VuePath(installed_apps[CHOOSE k \in having : \A j \in having : j <= k])
                 /\ pc = "checked" => handles = "yes"
            ELSE /\ vue_file_path = NoPath
                 /\ pc = "checked" => handles = "no"

C5_Witness ==
    /\ pc = "checked"
    /\ Len(installed_apps) = 2
    /\ \A k \in 1..2 : VuePath(installed_apps[k]) \in files
    /\ vue_file_path = VuePath(installed_apps[2])
    /\ handles = "yes"

\* C6 as stated: a served request went LOCATING, RENDERING, ASSEMBLING or
\* FALLBACK, SERVED and ran the renderer exactly once; a declined one never
C6_ExactlyOnce ==
    /\ pc = "served" =>
          /\ attempts = 1
          /\ \/ Phases(<<"LOCATING", "RENDERING", "ASSEMBLING", "SERVED">>)
             \/ Phases(<<"LOCATING", "RENDERING", "FALLBACK", "SERVED">>)
    /\ pc = "declined" => (attempts = 0 /\ Phases(<<"LOCATING", "DECLINED">>))

\* C6 amended: the renderer is never run twice; a served request ran it once
\* exactly when the renderer script exists and a runtime was selected, and
\* not at all otherwise; a failure while assembling also ends in FALLBACK
C6_AtMostOnce ==
    /\ attempts <= 1
    /\ pc = "served" =>
          /\ attempts = 1 <=> (renderer_exists = "yes" /\ node_cmd # None)
          /\ \/ Phases(<<"LOCATING", "RENDERING", "ASSEMBLING", "SERVED">>)
             \/ Phases(<<"LOCATING", "RENDERING", "FALLBACK", "SERVED">>)
             \/ Phases(<<"LOCATING", "RENDERING", "ASSEMBLING", "FALLBACK", "SERVED">>)
    /\ pc = "declined" => (attempts = 0 /\ Phases(<<"LOCATING", "DECLINED">>))

C6_Witness ==
    /\ pc = "served"
    /\ renderer_exists = "no"
    /\ attempts = 0
    /\ Phases(<<"LOCATING", "RENDERING", "FALLBACK", "SERVED">>)

\* a probe that did not yield a version: the launch failed, the query timed
\* out or exited non-zero, or what it printed is no version
FailedProbe(o) ==
    \/ o.kind = "raised"
    \/ o.kind = "completed" /\ o.returncode # 0
    \/ o.kind = "completed" /\ o.returncode = 0
          /\ (~startswith_v(o.stdout) \/ ~major_version(o.stdout).ok)

\* the lists the loop holds when only the found versions count
RECURSIVE Kept(_, _, _, _)
Kept(p, k, lo, hi) ==
    IF k > Len(p) THEN <<>>
    ELSE (IF p[k] # <<>> /\ major_version(p[k]).val >= lo /\ major_version(p[k]).val < hi
          THEN <<[cmd |-> node_commands[k], major |-> major_version(p[k]).val, version |-> p[k]]>>
          ELSE <<>>) \o Kept(p, k + 1, lo, hi)

\* C7: a candidate whose probe fails in any way is skipped: the loop goes on
\* with the next candidate and the lists are those of the other candidates
C7_FailedProbeSkipped ==
    (last # NoProbe /\ FailedProbe(last)) =>
        /\ node_error.type \notin ProbeRaises
        /\ Len(probed) = i - 1
        /\ probed[i - 1] = <<>>
        /\ v22_nodes = Kept(probed, 1, RequiredMajor, 1000)
        /\ other_nodes = Kept(probed, 1, ReportedMajor, RequiredMajor)

\* C8: with no candidate of major >= 22 the selection fails with an error
\* that lists every version the probes found; nothing below the threshold is
\* returned; with a candidate of major >= 22 no failure is raised
C8_ErrorListsFound ==
    /\ (SelectionOver /\ Qualifying = {}) =>
          /\ node_cmd = None
          /\ node_error # NoExc
          /\ node_error.versions = FoundVersions(probed)
    /\ (SelectionOver /\ node_cmd # None) => CmdIndex(node_cmd) \in Qualifying
    /\ (SelectionOver /\ Qualifying # {}) => node_error = NoExc

\* the error text of the failure that led to the fallback document
ErrorShown(doc) ==
    /\ renderer_exists = "no" => InText(doc, "Node.js Vue SSR renderer not found at ")
    /\ node_error # NoExc =>
          (AllInText(doc, node_error.text) /\ doc.error.versions = node_error.versions)
    /\ (result.kind = "raised" /\ result.type = "TimeoutExpired")
          => InText(doc, "Vue SSR renderer timed out")
    /\ (result.kind = "raised" /\ result.type # "TimeoutExpired")
          => AllInText(doc, OsErrorText(result.type))
    /\ (result.kind = "completed" /\ result.returncode # 0) => InText(doc, result.stderr)
    /\ (result.kind = "completed" /\ result.returncode = 0 /\ result.stdout.kind = "invalid")
          => InText(doc, "Expecting value")
    /\ (result.kind = "completed" /\ result.returncode = 0 /\ result.stdout.kind = "nonobject")
          => InText(doc, "object has no attribute 'get'")
    /\ (result.kind = "completed" /\ result.returncode = 0 /\ result.stdout.kind = "object"
          /\ ~Truthy(Get(result.stdout.obj, "success", JNull)))
          => InText(doc, Get(result.stdout.obj, "error", JStr("")).v)

\* C9: the fallback document holds the error text of the failure and the
\* path of the component, and no bundle script or hydration script
C9_FallbackShowsError ==
    html.template = "fallback" =>
        /\ ErrorShown(html)
        /\ html.vue_file = vue_file_path
        /\ html.scripts = <<>>

\* C10: among probed candidates that share the highest major >= 22 the
\* selector returns the one earliest in the probe order
C10_EarliestOfEqualMajor ==
    (SelectionOver /\ Qualifying # {}) =>
        LET top == {k \in Qualifying : \A j \in Qualifying : ProbedMajor(j) <= ProbedMajor(k)}
        IN  /\ node_cmd # None
            /\ node_cmd = node_commands[CHOOSE k \in top : \A j \in top : k <= j]


\* ------------------------------------------------------ supporting lemmas
\* every candidate was probed and the selection ended in Select
ProbeLoopCompleted == SelectionOver /\ i > Len(node_commands)

\* when no probe raised past the loop, the highest major wins and the
\* earliest candidate wins among equals
Lemma_SelectionWhenLoopCompletes ==
    ProbeLoopCompleted => (C4_HighestWins /\ C10_EarliestOfEqualMajor)

\* the error of frappe.throw lists the found versions of major 18..21 only
Lemma_ErrorListsReported ==
    (ProbeLoopCompleted /\ Qualifying = {}) =>
        /\ node_error.type = "ValidationError"
        /\ LET kept == Kept(probed, 1, ReportedMajor, RequiredMajor)
           IN  node_error.versions = [k \in 1..Len(kept) |-> kept[k].version]

\* the full document needs exit code 0, a JSON object and a flag that passes
\* Python's truth test
Lemma_FullOnlyIfTruthy ==
    html.template = "full" =>
        /\ result.kind = "completed" /\ result.returncode = 0
        /\ result.stdout.kind = "object"
        /\ Truthy(Get(result.stdout.obj, "success", JNull))

====
